---- MODULE Spec2Model ----
(***************************************************************************)
(* A model of monte's connection engine (conn.go: Conn.Write, WriteNoWait, *)
(* preparePendingWrite, Handle, writeLoop, readLoop, clearPendingWrites    *)
(* and the pendingWrite pool) and of its server (Server.Serve,             *)
(* serverAvailable, wait, client, Shutdown).                               *)
(*                                                                         *)
(* A critical section held under c.mu is one atomic action.  A goroutine   *)
(* is a program counter; an unbuffered channel send is a rendezvous with   *)
(* the receive that takes it.  The outcome of every call on the stream,    *)
(* the listener or the handshaker is a nondeterministic choice.            *)
(***************************************************************************)
EXTENDS Integers, Sequences, FiniteSets, TLC

\* ------------------------------------------------------------------ bounds
\* Number of Write/WriteNoWait calls made on the Conn.
MaxCalls == 3
\* Conn.ReadBufferSize as configured (a positive value, so that
\* getReadBufferSize returns it).
ReadBufferSize == 2
\* Width in bits of the sequence counter c.seq (32 in the source).
SeqWidth == 3
\* Goroutines calling Conn.next.
MaxNextCallers == 3

Calls == 1..MaxCalls
\* Every call may allocate a fresh pendingWrite, so MaxCalls of them suffice.
PwIds == 1..MaxCalls

NextCallers == 1..MaxNextCallers
\* c.seq is a uint32: it counts modulo 2^SeqWidth.
SeqMod == 2 ^ SeqWidth
\* Calls of Conn.next made: enough to take the counter past its wraparound.
MaxNexts == SeqMod + 2

\* ------------------------------------------------------------------- state
VARIABLES
    writerQueue,  \* c.writerQueue: sequence of *pendingWrite
    writerDone,   \* c.writerDone
    pws,          \* the pendingWrite objects: buf, wait, wg (WaitGroup counter)
    nalloc,       \* pendingWrite objects allocated so far (&pendingWrite{})
    pool,         \* pendingWritePool: how many times each object is in the pool
    cpanic,       \* a goroutine of the Conn panicked (negative WaitGroup counter)
    cpc,          \* per call: "idle" | "waiting" (in wg.Wait) | "ok" | "err"
    cwait,        \* per call: TRUE for Write, FALSE for WriteNoWait
    cpw,          \* per call: the pendingWrite it was given
    hpc,          \* Handle's position
    hpath,        \* the case Handle's select took
    herr,         \* Handle's err
    wpc,          \* writeLoop's position
    wq,           \* writeLoop's local queue
    wi,           \* writeLoop's index into queue
    werr,         \* writeLoop's err
    rpc,          \* readLoop's position
    rerr,         \* readLoop's err
    rlen,         \* len(buf) in readLoop
    sigs,         \* per buffer: wg.Done() and pool releases done by writeLoop and cleanup
    cancel,       \* the done channel given to Handle is closed
    closes,       \* number of conn.Close() calls on the stream
    wire,         \* buffers passed to the stream's Write, in call order
    accepted,     \* buffers appended to c.writerQueue, in append order
    seq,          \* c.seq
    returned,     \* the values Conn.next returned, in the order of the calls
    got,          \* per caller of next: which of the calls was its last one
    \* ---- Server
    sMaxConns,          \* s.MaxConns as configured
    sHandshakeTimeout,  \* s.HandshakeTimeout as configured
    sem,          \* len(s.sem): admission slots taken
    sdone,        \* s.done is closed
    swg,          \* s.wg's counter
    spanic,       \* a goroutine of the server panicked
    spc,          \* Serve's position
    sret,         \* Serve's return value: "none" | "nil" | "err"
    serr,         \* err of Serve's last ln.Accept(): "none" before the first
    naccept,      \* connections ln.Accept() has returned; the last is Serve's conn
    tasks,        \* per connection: its task's position and what was done to it
    shpc          \* per Shutdown call: its position

connVars == <<writerQueue, writerDone, pws, nalloc, pool, cpanic, cpc, cwait,
              cpw, hpc, hpath, herr, wpc, wq, wi, werr, rpc, rerr, rlen,
              cancel, closes, wire, accepted, sigs>>

serverVars == <<sMaxConns, sHandshakeTimeout, sem, sdone, swg, spanic, spc,
                sret, serr, naccept, tasks, shpc>>

seqVars == <<seq, returned, got>>

vars == <<connVars, seqVars, serverVars>>

\* ----------------------------------------------------------------- helpers
Range(s) == {s[k] : k \in 1..Len(s)}

\* c.getReadBufferSize(): the configured size when positive.
getReadBufferSize == ReadBufferSize

\* pendingWritePool.Put(wi)
releasePendingWrite(pl, p) == [pl EXCEPT ![p] = @ + 1]

\* pendingWritePool.Get() returns one of the pooled objects, or nil (the pool
\* may drop its content at any time), in which case a new one is allocated.
\* The result is the object with buf and wait set; wg is left as it is.
AcquireChoices == {p \in PwIds : pool[p] > 0} \cup
                  (IF nalloc < MaxCalls THEN {nalloc + 1} ELSE {})

\* c.writerCond.Signal(): a writeLoop blocked in writerCond.Wait() wakes up,
\* reacquires the mutex and evaluates its loop condition again.
Signal == IF wpc = "wait" THEN "lock" ELSE wpc

InitConn ==
    /\ writerQueue = <<>>
    /\ writerDone = FALSE
    /\ pws = [p \in PwIds |-> [buf |-> 0, wait |-> FALSE, wg |-> 0]]
    /\ nalloc = 0
    /\ pool = [p \in PwIds |-> 0]
    /\ cpanic = FALSE
    /\ cpc = [i \in Calls |-> "idle"]
    /\ cwait = [i \in Calls |-> FALSE]
    /\ cpw = [i \in Calls |-> 0]
    /\ hpc = "idle"
    /\ hpath = "none"
    /\ herr = "nil"
    /\ wpc = "none"
    /\ wq = <<>>
    /\ wi = 0
    /\ werr = "nil"
    /\ rpc = "none"
    /\ rerr = "nil"
    /\ rlen = getReadBufferSize
    /\ sigs = [i \in Calls |-> [done |-> 0, put |-> 0]]
    /\ cancel = FALSE
    /\ closes = 0
    /\ wire = <<>>
    /\ accepted = <<>>
    /\ seq = 0
    /\ returned = <<>>
    /\ got = [a \in NextCallers |-> 0]

\* ------------------------------------------------- Write and WriteNoWait
\* preparePendingWrite putting the new pendingWrite at the head of the queue.
preparePendingWrite_front(i, w) ==
    IF writerDone
    THEN /\ cpc' = [cpc EXCEPT ![i] = "err"]
         /\ UNCHANGED <<writerQueue, pws, nalloc, pool, cpw, wpc, accepted>>
    ELSE \E p \in AcquireChoices :
         /\ pool' = IF pool[p] > 0 THEN [pool EXCEPT ![p] = @ - 1] ELSE pool
         /\ nalloc' = IF pool[p] > 0 THEN nalloc ELSE nalloc + 1
         /\ pws' = [pws EXCEPT ![p] = [buf |-> i, wait |-> w,
                                       wg |-> IF w THEN @.wg + 1 ELSE @.wg]]
         /\ writerQueue' = <<p>> \o writerQueue
         /\ accepted' = Append(accepted, i)
         /\ wpc' = Signal
         /\ cpw' = [cpw EXCEPT ![i] = p]
         /\ cpc' = [cpc EXCEPT ![i] = IF w THEN "waiting" ELSE "ok"]

\* preparePendingWrite without the check of c.writerDone.
preparePendingWrite_noCheck(i, w) ==
    \E p \in AcquireChoices :
         /\ pool' = IF pool[p] > 0 THEN [pool EXCEPT ![p] = @ - 1] ELSE pool
         /\ nalloc' = IF pool[p] > 0 THEN nalloc ELSE nalloc + 1
         /\ pws' = [pws EXCEPT ![p] = [buf |-> i, wait |-> w,
                                       wg |-> IF w THEN @.wg + 1 ELSE @.wg]]
         /\ writerQueue' = Append(writerQueue, p)
         /\ accepted' = Append(accepted, i)
         /\ wpc' = Signal
         /\ cpw' = [cpw EXCEPT ![i] = p]
         /\ cpc' = [cpc EXCEPT ![i] = IF w THEN "waiting" ELSE "ok"]

\* Conn.preparePendingWrite(buf, wait) for call i, whose buffer is i.
preparePendingWrite(i, w) ==
    IF writerDone
    THEN /\ cpc' = [cpc EXCEPT ![i] = "err"]
         /\ UNCHANGED <<writerQueue, pws, nalloc, pool, cpw, wpc, accepted>>
    ELSE \E p \in AcquireChoices :
         /\ pool' = IF pool[p] > 0 THEN [pool EXCEPT ![p] = @ - 1] ELSE pool
         /\ nalloc' = IF pool[p] > 0 THEN nalloc ELSE nalloc + 1
         /\ pws' = [pws EXCEPT ![p] = [buf |-> i, wait |-> w,
                                       wg |-> IF w THEN @.wg + 1 ELSE @.wg]]
         /\ writerQueue' = Append(writerQueue, p)
         /\ accepted' = Append(accepted, i)
         /\ wpc' = Signal
         /\ cpw' = [cpw EXCEPT ![i] = p]
         /\ cpc' = [cpc EXCEPT ![i] = IF w THEN "waiting" ELSE "ok"]

\* Calls are numbered in the order in which they enter preparePendingWrite
\* (the mutex serialises them), so call i starts only after call i-1.
CanStart(i) == cpc[i] = "idle" /\ (IF i = 1 THEN TRUE ELSE cpc[i - 1] # "idle")

\* Conn.Write up to pw.wg.Wait()
Write(i) ==
    /\ ~cpanic
    /\ CanStart(i)
    /\ cwait' = [cwait EXCEPT ![i] = TRUE]
    /\ preparePendingWrite(i, TRUE)
    /\ UNCHANGED <<seqVars, serverVars, sigs, writerDone, cpanic, hpc, hpath, herr, wq, wi, werr, rpc,
                   rerr, rlen, cancel, closes, wire>>

\* Conn.Write from the return of pw.wg.Wait(): the deferred release, return nil
WriteReturn(i) ==
    /\ ~cpanic
    /\ cpc[i] = "waiting"
    /\ pws[cpw[i]].wg = 0
    /\ pool' = releasePendingWrite(pool, cpw[i])
    /\ cpc' = [cpc EXCEPT ![i] = "ok"]
    /\ UNCHANGED <<seqVars, serverVars, sigs, writerQueue, writerDone, pws, nalloc, cpanic, cwait, cpw,
                   hpc, hpath, herr, wpc, wq, wi, werr, rpc, rerr, rlen,
                   cancel, closes, wire, accepted>>

\* Conn.WriteNoWait
WriteNoWait(i) ==
    /\ ~cpanic
    /\ CanStart(i)
    /\ cwait' = [cwait EXCEPT ![i] = FALSE]
    /\ preparePendingWrite(i, FALSE)
    /\ UNCHANGED <<seqVars, serverVars, sigs, writerDone, cpanic, hpc, hpath, herr, wq, wi, werr, rpc,
                   rerr, rlen, cancel, closes, wire>>

\* ---------------------------------------------------------------- writeLoop
\* A writeLoop that stops as soon as it sees the flag, whatever it swapped out.
wlSwap_stopOnDone ==
    /\ ~cpanic
    /\ wpc = "lock"
    /\ IF ~writerDone /\ Len(writerQueue) = 0
       THEN /\ wpc' = "wait"
            /\ UNCHANGED <<writerQueue, wq, wi>>
       ELSE /\ wq' = writerQueue
            /\ writerQueue' = <<>>
            /\ wi' = 1
            /\ wpc' = IF writerDone THEN "send" ELSE "write"
    /\ UNCHANGED <<seqVars, serverVars, sigs, writerDone, pws, nalloc, pool, cpanic, cpc, cwait, cpw,
                   hpc, hpath, herr, werr, rpc, rerr, rlen, cancel, closes,
                   wire, accepted>>

\* Lines 186-196: lock, wait while there is nothing to do, swap the queue out.
wlSwap ==
    /\ ~cpanic
    /\ wpc = "lock"
    /\ IF ~writerDone /\ Len(writerQueue) = 0
       THEN /\ wpc' = "wait"
            /\ UNCHANGED <<writerQueue, wq, wi>>
       ELSE /\ wq' = writerQueue
            /\ writerQueue' = <<>>
            /\ wi' = 1
            /\ wpc' = IF writerDone /\ Len(writerQueue) = 0
                      THEN "send" ELSE "write"
    /\ UNCHANGED <<seqVars, serverVars, sigs, writerDone, pws, nalloc, pool, cpanic, cpc, cwait, cpw,
                   hpc, hpath, herr, werr, rpc, rerr, rlen, cancel, closes,
                   wire, accepted>>

\* Lines 199-201: the stream's Write for queue[wi], unless err is set.
wlWrite ==
    /\ ~cpanic
    /\ wpc = "write"
    /\ IF werr = "nil"
       THEN /\ wire' = Append(wire, pws[wq[wi]].buf)
            /\ \E ok \in BOOLEAN : werr' = IF ok THEN "nil" ELSE "write"
       ELSE UNCHANGED <<wire, werr>>
    /\ wpc' = "signal"
    /\ UNCHANGED <<seqVars, serverVars, sigs, writerQueue, writerDone, pws, nalloc, pool, cpanic, cpc,
                   cwait, cpw, hpc, hpath, herr, wq, wi, rpc, rerr, rlen,
                   cancel, closes, accepted>>

\* A writeLoop that breaks out of the batch right after the element whose
\* Write failed.
wlSignal_breakOnErr ==
    /\ ~cpanic
    /\ wpc = "signal"
    /\ LET p == wq[wi] IN
       IF pws[p].wait
       THEN IF pws[p].wg = 0
            THEN cpanic' = TRUE /\ UNCHANGED <<pws, pool, sigs>>
            ELSE /\ pws' = [pws EXCEPT ![p].wg = @ - 1]
                 /\ sigs' = [sigs EXCEPT ![pws[p].buf].done = @ + 1]
                 /\ UNCHANGED <<pool, cpanic>>
       ELSE /\ pool' = releasePendingWrite(pool, p)
            /\ sigs' = [sigs EXCEPT ![pws[p].buf].put = @ + 1]
            /\ UNCHANGED <<pws, cpanic>>
    /\ IF werr # "nil"
       THEN wi' = wi /\ wpc' = "send"
       ELSE IF wi < Len(wq)
            THEN wi' = wi + 1 /\ wpc' = "write"
            ELSE wi' = wi /\ wpc' = "flush"
    /\ UNCHANGED <<seqVars, serverVars, writerQueue, writerDone, nalloc, cpc, cwait, cpw, hpc,
                   hpath, herr, wq, werr, rpc, rerr, rlen, cancel, closes,
                   wire, accepted>>

\* Lines 202-211: pw.wg.Done() or releasePendingWrite(pw), then the next
\* element, or after the last one the break on err.
wlSignal ==
    /\ ~cpanic
    /\ wpc = "signal"
    /\ LET p == wq[wi] IN
       IF pws[p].wait
       THEN IF pws[p].wg = 0
            THEN cpanic' = TRUE /\ UNCHANGED <<pws, pool, sigs>>
            ELSE /\ pws' = [pws EXCEPT ![p].wg = @ - 1]
                 /\ sigs' = [sigs EXCEPT ![pws[p].buf].done = @ + 1]
                 /\ UNCHANGED <<pool, cpanic>>
       ELSE /\ pool' = releasePendingWrite(pool, p)
            /\ sigs' = [sigs EXCEPT ![pws[p].buf].put = @ + 1]
            /\ UNCHANGED <<pws, cpanic>>
    /\ IF wi < Len(wq)
       THEN wi' = wi + 1 /\ wpc' = "write"
       ELSE wi' = wi /\ wpc' = (IF werr # "nil" THEN "send" ELSE "flush")
    /\ UNCHANGED <<seqVars, serverVars, writerQueue, writerDone, nalloc, cpc, cwait, cpw, hpc,
                   hpath, herr, wq, werr, rpc, rerr, rlen, cancel, closes,
                   wire, accepted>>

\* A writeLoop that stops after a successful Flush once the flag is set,
\* without looking at the queue again.
wlFlush_exitIfDone ==
    /\ ~cpanic
    /\ wpc = "flush"
    /\ \E ok \in BOOLEAN :
         IF ok THEN wpc' = (IF writerDone THEN "send" ELSE "lock") /\ werr' = werr
               ELSE wpc' = "send" /\ werr' = "flush"
    /\ UNCHANGED <<seqVars, serverVars, sigs, writerQueue, writerDone, pws, nalloc, pool, cpanic, cpc,
                   cwait, cpw, hpc, hpath, herr, wq, wi, rpc, rerr, rlen,
                   cancel, closes, wire, accepted>>

\* Lines 213-216: conn.Flush()
wlFlush ==
    /\ ~cpanic
    /\ wpc = "flush"
    /\ \E ok \in BOOLEAN :
         IF ok THEN wpc' = "lock" /\ werr' = werr
               ELSE wpc' = "send" /\ werr' = "flush"
    /\ UNCHANGED <<seqVars, serverVars, sigs, writerQueue, writerDone, pws, nalloc, pool, cpanic, cpc,
                   cwait, cpw, hpc, hpath, herr, wq, wi, rpc, rerr, rlen,
                   cancel, closes, wire, accepted>>

\* ----------------------------------------------------------------- readLoop
\* Lines 230-235: one conn.Read(buf).  A Read returns data only while the
\* stream is open; it may fail at any time, and fails once the stream is closed.
rlRead ==
    /\ ~cpanic
    /\ rpc = "read"
    /\ \/ /\ closes = 0
          /\ \E n \in 0..rlen : rlen' = n
          /\ UNCHANGED <<rpc, rerr>>
       \/ /\ rerr' = "read"
          /\ rpc' = "send"
          /\ rlen' = rlen
    /\ UNCHANGED <<seqVars, serverVars, sigs, writerQueue, writerDone, pws, nalloc, pool, cpanic, cpc,
                   cwait, cpw, hpc, hpath, herr, wpc, wq, wi, werr, cancel,
                   closes, wire, accepted>>

\* ------------------------------------------------------------------- Handle
\* Lines 139-150: start both loops.
HandleStart ==
    /\ ~cpanic
    /\ hpc = "idle"
    /\ hpc' = "select"
    /\ wpc' = "lock"
    /\ rpc' = "read"
    /\ UNCHANGED <<seqVars, serverVars, sigs, writerQueue, writerDone, pws, nalloc, pool, cpanic, cpc,
                   cwait, cpw, hpath, herr, wq, wi, werr, rerr, rlen, cancel,
                   closes, wire, accepted>>

\* Line 155: case <-done
HSelectDone ==
    /\ ~cpanic
    /\ hpc = "select"
    /\ cancel
    /\ hpath' = "cancel"
    /\ hpc' = "flag"
    /\ UNCHANGED <<seqVars, serverVars, sigs, writerQueue, writerDone, pws, nalloc, pool, cpanic, cpc,
                   cwait, cpw, herr, wpc, wq, wi, werr, rpc, rerr, rlen,
                   cancel, closes, wire, accepted>>

\* Line 164: case err = <-writerDone
HSelectWriter ==
    /\ ~cpanic
    /\ hpc = "select"
    /\ wpc = "send"
    /\ wpc' = "done"
    /\ herr' = werr
    /\ hpath' = "writer"
    /\ hpc' = "close"
    /\ UNCHANGED <<seqVars, serverVars, sigs, writerQueue, writerDone, pws, nalloc, pool, cpanic, cpc,
                   cwait, cpw, wq, wi, werr, rpc, rerr, rlen, cancel, closes,
                   wire, accepted>>

\* Line 167: case err = <-readerDone
HSelectReader ==
    /\ ~cpanic
    /\ hpc = "select"
    /\ rpc = "send"
    /\ rpc' = "done"
    /\ herr' = rerr
    /\ hpath' = "reader"
    /\ hpc' = "flag"
    /\ UNCHANGED <<seqVars, serverVars, sigs, writerQueue, writerDone, pws, nalloc, pool, cpanic, cpc,
                   cwait, cpw, wpc, wq, wi, werr, rerr, rlen, cancel, closes,
                   wire, accepted>>

\* A Handle that closes the stream right after setting the flag, without
\* the receive from writerDone.
HSetDone_noWait ==
    /\ ~cpanic
    /\ hpc = "flag"
    /\ writerDone' = TRUE
    /\ wpc' = Signal
    /\ hpc' = "close"
    /\ UNCHANGED <<seqVars, serverVars, sigs, writerQueue, pws, nalloc, pool, cpanic, cpc, cwait, cpw,
                   hpath, herr, wq, wi, werr, rpc, rerr, rlen, cancel, closes,
                   wire, accepted>>

\* A Handle that sets the flag without writerCond.Signal().
HSetDone_noSignal ==
    /\ ~cpanic
    /\ hpc = "flag"
    /\ writerDone' = TRUE
    /\ hpc' = "recvW"
    /\ UNCHANGED <<seqVars, serverVars, sigs, writerQueue, pws, nalloc, pool, cpanic, cpc, cwait, cpw,
                   hpath, herr, wpc, wq, wi, werr, rpc, rerr, rlen, cancel, closes,
                   wire, accepted>>

\* Lines 156-159 and 168-171: c.writerDone = true; c.writerCond.Signal()
HSetDone ==
    /\ ~cpanic
    /\ hpc = "flag"
    /\ writerDone' = TRUE
    /\ wpc' = Signal
    /\ hpc' = "recvW"
    /\ UNCHANGED <<seqVars, serverVars, sigs, writerQueue, pws, nalloc, pool, cpanic, cpc, cwait, cpw,
                   hpath, herr, wq, wi, werr, rpc, rerr, rlen, cancel, closes,
                   wire, accepted>>

\* A Handle that keeps the value received from writerDone as its result.
HRecvWriter_keepErr ==
    /\ ~cpanic
    /\ hpc = "recvW"
    /\ wpc = "send"
    /\ wpc' = "done"
    /\ herr' = werr
    /\ hpc' = "close"
    /\ UNCHANGED <<seqVars, serverVars, sigs, writerQueue, writerDone, pws, nalloc, pool, cpanic, cpc,
                   cwait, cpw, hpath, wq, wi, werr, rpc, rerr, rlen,
                   cancel, closes, wire, accepted>>

\* Lines 161 and 173: <-writerDone, the value dropped
HRecvWriter ==
    /\ ~cpanic
    /\ hpc = "recvW"
    /\ wpc = "send"
    /\ wpc' = "done"
    /\ hpc' = "close"
    /\ UNCHANGED <<seqVars, serverVars, sigs, writerQueue, writerDone, pws, nalloc, pool, cpanic, cpc,
                   cwait, cpw, hpath, herr, wq, wi, werr, rpc, rerr, rlen,
                   cancel, closes, wire, accepted>>

\* Lines 162, 165 and 174: conn.Close()
HClose ==
    /\ ~cpanic
    /\ hpc = "close"
    /\ closes' = closes + 1
    /\ hpc' = IF hpath = "reader" THEN "clear" ELSE "recvR"
    /\ UNCHANGED <<seqVars, serverVars, sigs, writerQueue, writerDone, pws, nalloc, pool, cpanic, cpc,
                   cwait, cpw, hpath, herr, wpc, wq, wi, werr, rpc, rerr,
                   rlen, cancel, wire, accepted>>

\* Lines 163 and 166: <-readerDone, the value dropped
HRecvReader ==
    /\ ~cpanic
    /\ hpc = "recvR"
    /\ rpc = "send"
    /\ rpc' = "done"
    /\ hpc' = "clear"
    /\ UNCHANGED <<seqVars, serverVars, sigs, writerQueue, writerDone, pws, nalloc, pool, cpanic, cpc,
                   cwait, cpw, hpath, herr, wpc, wq, wi, werr, rerr, rlen,
                   cancel, closes, wire, accepted>>

\* The loop of clearPendingWrites over q, from the state st = [pws, pool, panic].
RECURSIVE ClearLoop(_, _)
ClearLoop(q, st) ==
    IF q = <<>> \/ st.panic THEN st
    ELSE LET p == Head(q) IN
         ClearLoop(Tail(q),
            IF st.pws[p].wait
            THEN IF st.pws[p].wg = 0
                 THEN [st EXCEPT !.panic = TRUE]
                 ELSE [st EXCEPT !.pws[p].wg = @ - 1,
                                 !.sigs[st.pws[p].buf].done = @ + 1]
            ELSE [st EXCEPT !.pool = releasePendingWrite(@, p),
                            !.sigs[st.pws[p].buf].put = @ + 1])

\* Lines 177-179: c.clearPendingWrites(); return err.  The queue itself is
\* left as it is.
clearPendingWrites ==
    /\ ~cpanic
    /\ hpc = "clear"
    /\ LET st == ClearLoop(writerQueue,
                           [pws |-> pws, pool |-> pool, sigs |-> sigs,
                            panic |-> FALSE]) IN
       /\ pws' = st.pws
       /\ pool' = st.pool
       /\ sigs' = st.sigs
       /\ cpanic' = st.panic
    /\ hpc' = "returned"
    /\ UNCHANGED <<seqVars, serverVars, writerQueue, writerDone, nalloc, cpc, cwait, cpw, hpath,
                   herr, wpc, wq, wi, werr, rpc, rerr, rlen, cancel, closes,
                   wire, accepted>>

\* The owner of the done channel closes it.
Cancel ==
    /\ ~cpanic
    /\ ~cancel
    /\ cancel' = TRUE
    /\ UNCHANGED <<seqVars, serverVars, sigs, writerQueue, writerDone, pws, nalloc, pool, cpanic, cpc,
                   cwait, cpw, hpc, hpath, herr, wpc, wq, wi, werr, rpc, rerr,
                   rlen, closes, wire, accepted>>

\* A panic ends the process: no action is enabled once cpanic is set.
NextConn ==
    \/ \E i \in Calls : Write(i)
    \/ \E i \in Calls : WriteReturn(i)
    \/ \E i \in Calls : WriteNoWait(i)
    \/ wlSwap
    \/ wlWrite
    \/ wlSignal
    \/ wlFlush
    \/ rlRead
    \/ HandleStart
    \/ HSelectDone
    \/ HSelectWriter
    \/ HSelectReader
    \/ HSetDone
    \/ HRecvWriter
    \/ HClose
    \/ HRecvReader
    \/ clearPendingWrites
    \/ Cancel

\* ===================================================================== Server
\* Connections the listener hands out.
MaxAccepts == 2
\* Shutdown calls made on the server.
MaxShutdowns == 2
\* The largest s.MaxConns configured (0 selects the default).
MaxMaxConns == 2

Conns == 1..MaxAccepts
Shutdowns == 1..MaxShutdowns

DefaultMaxServerConns == 1024
\* In seconds.
DefaultHandshakeTimeout == 3

\* s.HandshakeTimeout as configured: negative, zero (no deadline), positive.
HandshakeTimeouts == {-1, 0, 1}

\* What ln.Accept() can fail with: io.EOF; an error that is no *net.OpError;
\* "use of closed network connection"; an OpError that is not temporary; a
\* temporary OpError.
AcceptErrors == {"eof", "other", "closed", "fatal", "temporary"}

\* Server.getMaxConns
getMaxConns == IF sMaxConns <= 0 THEN DefaultMaxServerConns ELSE sMaxConns

\* Server.getHandshakeTimeout
getHandshakeTimeout ==
    IF sHandshakeTimeout < 0 THEN DefaultHandshakeTimeout ELSE sHandshakeTimeout

\* A slot pool that never fills.
semCanSend_unbounded == TRUE

\* s.sem = make(chan struct{}, s.getMaxConns()): a send proceeds while the
\* buffer is not full.
semCanSend == sem < getMaxConns

NoTask == [pc |-> "none", late |-> FALSE, why |-> "none", outcome |-> "none",
           reserved |-> 0, released |-> 0, closes |-> 0, adds |-> 0,
           dones |-> 0, handled |-> 0, hsok |-> FALSE]

InitServerState ==
    /\ sem = 0
    /\ sdone = FALSE
    /\ swg = 0
    /\ spanic = FALSE
    /\ spc = "idle"
    /\ sret = "none"
    /\ serr = "none"
    /\ naccept = 0
    /\ tasks = [c \in Conns |-> NoTask]
    /\ shpc = [s \in Shutdowns |-> "idle"]

\* Server.Serve, line 136: s.once.Do(s.init)
ServeCall ==
    /\ ~spanic
    /\ spc = "idle"
    /\ spc' = "accept"
    /\ UNCHANGED <<seqVars, connVars, serr, sMaxConns, sHandshakeTimeout, sem, sdone, swg,
                   spanic, sret, naccept, tasks, shpc>>

\* Serve returning a temporary Accept error instead of waiting and retrying.
ServeAccept_tempFatal ==
    /\ ~spanic
    /\ spc = "accept"
    /\ \/ /\ naccept < MaxAccepts
          /\ naccept' = naccept + 1
          /\ tasks' = [tasks EXCEPT ![naccept + 1].pc = "pending",
                                    ![naccept + 1].late = sdone]
          /\ spc' = "avail"
          /\ sret' = sret
          /\ serr' = "nil"
       \/ \E e \in AcceptErrors :
          /\ serr' = e
          /\ spc' = "returned"
          /\ sret' = IF e \in {"eof", "closed"} THEN "nil" ELSE "err"
          /\ UNCHANGED <<naccept, tasks>>
    /\ UNCHANGED <<seqVars, connVars, sMaxConns, sHandshakeTimeout, sem, sdone, swg,
                   spanic, shpc>>

\* Server.Serve, lines 139-159 up to s.wait: ln.Accept() and its errors.  A
\* connection accepted once s.done is closed is marked late.
ServeAccept ==
    /\ ~spanic
    /\ spc = "accept"
    /\ \/ /\ naccept < MaxAccepts
          /\ naccept' = naccept + 1
          /\ tasks' = [tasks EXCEPT ![naccept + 1].pc = "pending",
                                    ![naccept + 1].late = sdone]
          /\ spc' = "avail"
          /\ sret' = sret
          /\ serr' = "nil"
       \/ \E e \in AcceptErrors :
          /\ serr' = e
          /\ spc' = IF e = "temporary" THEN "wait" ELSE "returned"
          /\ sret' = IF e = "temporary" THEN sret
                     ELSE IF e \in {"eof", "closed"} THEN "nil" ELSE "err"
          /\ UNCHANGED <<naccept, tasks>>
    /\ UNCHANGED <<seqVars, connVars, sMaxConns, sHandshakeTimeout, sem, sdone, swg,
                   spanic, shpc>>

\* Server.wait(100 * time.Millisecond) and lines 155-158 of Serve.
ServeWait ==
    /\ ~spanic
    /\ spc = "wait"
    /\ \/ spc' = "accept" /\ sret' = sret
       \/ sdone /\ spc' = "returned" /\ sret' = "nil"
    /\ UNCHANGED <<seqVars, connVars, serr, sMaxConns, sHandshakeTimeout, sem, sdone, swg,
                   spanic, naccept, tasks, shpc>>

\* Serve closing the connection but not leaving the iteration (no continue).
Reject_noContinue(c, why) ==
    /\ tasks' = [tasks EXCEPT ![c].pc = "admitted", ![c].why = why,
                              ![c].closes = @ + 1]
    /\ spc' = "add"
    /\ sem' = sem

\* serverAvailable returns false, and lines 162-163 of Serve: conn.Close();
\* continue.
Reject(c, why) ==
    /\ tasks' = [tasks EXCEPT ![c].pc = "rejected", ![c].why = why,
                              ![c].closes = @ + 1]
    /\ spc' = "accept"
    /\ sem' = sem

\* s.sem <- struct{}{} is taken and serverAvailable returns true.
Reserve(c) ==
    /\ sem' = sem + 1
    /\ tasks' = [tasks EXCEPT ![c].pc = "admitted", ![c].reserved = @ + 1]
    /\ spc' = "add"

\* serverAvailable, lines 76-81: the first select.  Of the cases that can
\* proceed one is chosen at random; default is taken when none can.
serverAvailable ==
    /\ ~spanic
    /\ spc = "avail"
    /\ \/ sdone /\ Reject(naccept, "shutdown")
       \/ semCanSend /\ Reserve(naccept)
       \/ /\ ~sdone
          /\ ~semCanSend
          /\ spc' = "availwait"
          /\ UNCHANGED <<sem, tasks>>
    /\ UNCHANGED <<seqVars, connVars, serr, sMaxConns, sHandshakeTimeout, sdone, swg, spanic,
                   sret, naccept, shpc>>

\* serverAvailable, lines 82-92: the select on the MaxConnWaitTimeout timer,
\* s.done and s.sem.  The timer may fire at any time.
serverAvailableWait ==
    /\ ~spanic
    /\ spc = "availwait"
    /\ \/ Reject(naccept, "timeout")
       \/ sdone /\ Reject(naccept, "shutdown")
       \/ semCanSend /\ Reserve(naccept)
    /\ UNCHANGED <<seqVars, connVars, serr, sMaxConns, sHandshakeTimeout, sdone, swg, spanic,
                   sret, naccept, shpc>>

\* Server.Serve, lines 166-172: s.wg.Add(1) and the go statement.
ServeSpawn ==
    /\ ~spanic
    /\ spc = "add"
    /\ swg' = swg + 1
    /\ tasks' = [tasks EXCEPT ![naccept].pc = "start", ![naccept].adds = @ + 1]
    /\ spc' = "accept"
    /\ UNCHANGED <<seqVars, connVars, serr, sMaxConns, sHandshakeTimeout, sem, sdone, spanic,
                   sret, naccept, shpc>>

\* How far Server.client gets: SetDeadline fails ("arm"), Handshake fails
\* ("handshake"), clearing the deadline fails ("clear"), or Handle is called
\* ("handle").  The deadline calls are made only when the timeout is not 0.
ClientOutcomes ==
    {"handshake", "handle"} \cup
    (IF getHandshakeTimeout # 0 THEN {"arm", "clear"} ELSE {})

\* Server.client releasing its slot only after Handle, not on a failing return.
client_noDefer(c) ==
    /\ ~spanic
    /\ tasks[c].pc = "start"
    /\ \E o \in ClientOutcomes :
         tasks' = [tasks EXCEPT
            ![c].outcome = o,
            ![c].hsok = (o \in {"clear", "handle"}),
            ![c].handled = IF o = "handle" THEN @ + 1 ELSE @,
            ![c].pc = IF o = "handle" THEN "inhandle" ELSE "close"]
    /\ UNCHANGED <<seqVars, connVars, serr, sMaxConns, sHandshakeTimeout, sem, sdone, swg,
                   spanic, spc, sret, naccept, shpc>>

\* Server.client, lines 111-132, to the call of Handle or the failing return.
\* These steps touch only the task's own connection.
client(c) ==
    /\ ~spanic
    /\ tasks[c].pc = "start"
    /\ \E o \in ClientOutcomes :
         tasks' = [tasks EXCEPT
            ![c].outcome = o,
            ![c].hsok = (o \in {"clear", "handle"}),
            ![c].handled = IF o = "handle" THEN @ + 1 ELSE @,
            ![c].pc = IF o = "handle" THEN "inhandle" ELSE "release"]
    /\ UNCHANGED <<seqVars, connVars, serr, sMaxConns, sHandshakeTimeout, sem, sdone, swg,
                   spanic, spc, sret, naccept, shpc>>

\* The handler's Handle returns, with or without an error.
HandleReturn(c) ==
    /\ ~spanic
    /\ tasks[c].pc = "inhandle"
    /\ tasks' = [tasks EXCEPT ![c].pc = "release"]
    /\ UNCHANGED <<seqVars, connVars, serr, sMaxConns, sHandshakeTimeout, sem, sdone, swg,
                   spanic, spc, sret, naccept, shpc>>

\* Server.client, line 109: the deferred <-s.sem
clientRelease(c) ==
    /\ ~spanic
    /\ tasks[c].pc = "release"
    /\ sem > 0
    /\ sem' = sem - 1
    /\ tasks' = [tasks EXCEPT ![c].pc = "close", ![c].released = @ + 1]
    /\ UNCHANGED <<seqVars, connVars, serr, sMaxConns, sHandshakeTimeout, sdone, swg, spanic,
                   spc, sret, naccept, shpc>>

\* Server.Serve, lines 169-171: conn.Close(), then the deferred s.wg.Done()
clientExit(c) ==
    /\ ~spanic
    /\ tasks[c].pc = "close"
    /\ IF swg = 0
       THEN /\ spanic' = TRUE
            /\ tasks' = [tasks EXCEPT ![c].closes = @ + 1]
            /\ swg' = swg
       ELSE /\ swg' = swg - 1
            /\ tasks' = [tasks EXCEPT ![c].pc = "exited", ![c].closes = @ + 1,
                                      ![c].dones = @ + 1]
            /\ spanic' = spanic
    /\ UNCHANGED <<seqVars, connVars, serr, sMaxConns, sHandshakeTimeout, sem, sdone, spc,
                   sret, naccept, shpc>>

\* Shutdown calls are numbered in the order in which they reach close(s.done).
CanShutdown(s) ==
    shpc[s] = "idle" /\ (IF s = 1 THEN TRUE ELSE shpc[s - 1] # "idle")

\* Server.Shutdown, lines 177-179: close(s.done).  Closing a closed channel
\* panics.
Shutdown(s) ==
    /\ ~spanic
    /\ CanShutdown(s)
    /\ IF sdone
       THEN /\ spanic' = TRUE
            /\ shpc' = [shpc EXCEPT ![s] = "panic"]
            /\ sdone' = sdone
       ELSE /\ sdone' = TRUE
            /\ shpc' = [shpc EXCEPT ![s] = "wait"]
            /\ spanic' = spanic
    /\ UNCHANGED <<seqVars, connVars, serr, sMaxConns, sHandshakeTimeout, sem, swg, spc, sret,
                   naccept, tasks>>

\* Server.Shutdown, line 180: s.wg.Wait() returns when the counter is 0.
ShutdownWait(s) ==
    /\ ~spanic
    /\ shpc[s] = "wait"
    /\ swg = 0
    /\ shpc' = [shpc EXCEPT ![s] = "returned"]
    /\ UNCHANGED <<seqVars, connVars, serr, sMaxConns, sHandshakeTimeout, sem, sdone, swg,
                   spanic, spc, sret, naccept, tasks>>

NextServer ==
    \/ ServeCall
    \/ ServeAccept
    \/ ServeWait
    \/ serverAvailable
    \/ serverAvailableWait
    \/ ServeSpawn
    \/ \E c \in Conns : client(c)
    \/ \E c \in Conns : HandleReturn(c)
    \/ \E c \in Conns : clientRelease(c)
    \/ \E c \in Conns : clientExit(c)
    \/ \E s \in Shutdowns : Shutdown(s)
    \/ \E s \in Shutdowns : ShutdownWait(s)

\* ===================================================================== next
\* c.seq++ on a uint32 that never stops at 0.
nextSeq_noSkip(v) == (v + 1) % SeqMod

\* Conn.next, lines 131-135: c.seq++; if c.seq == 0 { c.seq = 1 }
nextSeq(v) == IF (v + 1) % SeqMod = 0 THEN 1 ELSE (v + 1) % SeqMod

\* Conn.next for caller a: the whole body runs under c.mu.
next(a) ==
    /\ Len(returned) < MaxNexts
    /\ seq' = nextSeq(seq)
    /\ returned' = Append(returned, nextSeq(seq))
    /\ got' = [got EXCEPT ![a] = Len(returned) + 1]
    /\ UNCHANGED <<connVars, serverVars>>

NextSeq == \E a \in NextCallers : next(a)

\* ==================================================================== claims
\* Position of x in a sequence that holds it once.
Pos(q, x) == CHOOSE k \in 1..Len(q) : q[k] = x

\* Call i enters preparePendingWrite in this step.
Issued(i) == cpc[i] = "idle" /\ cpc'[i] # "idle"

\* C1: the buffers writeLoop passes to the stream's Write are buffers that were
\* appended to the write queue, in the order of their appends, each at most once.
C1_WireInQueueOrder ==
    /\ \A j \in 1..Len(wire) : wire[j] \in Range(accepted)
    /\ \A j, k \in 1..Len(wire) :
         j < k => Pos(accepted, wire[j]) < Pos(accepted, wire[k])

\* C1 witness: a Write's and a WriteNoWait's buffer have both reached the
\* stream, and every accepted buffer has.
C1_Witness ==
    /\ Len(wire) = MaxCalls
    /\ \E i, j \in Calls : cwait[i] /\ ~cwait[j]

\* C2: a Write that has returned nil had its buffer passed to the stream's
\* Write.
C2_WriteOkMeansWritten ==
    \A i \in Calls : (cwait[i] /\ cpc[i] = "ok") => i \in Range(wire)

\* C3, for the connection known unusable because Handle has returned: a Write
\* or WriteNoWait entered from then on returns an error, and no Write stays
\* blocked in wg.Wait() on a counter nobody will decrement.
C3_AfterHandleWritesFail ==
    [][hpc = "returned" =>
         /\ \A i \in Calls : Issued(i) => cpc'[i] = "err"
         /\ \A i \in Calls : cpc'[i] = "waiting" => pws'[cpw'[i]].wg = 0]_vars

\* C4: once c.writerDone is set it stays set, and a Write or WriteNoWait
\* entered from then on returns an error at once (it never waits) and leaves
\* c.writerQueue as it was.
C4_DoneFlagRejects ==
    [][writerDone =>
         /\ writerDone'
         /\ \A i \in Calls :
              Issued(i) => (cpc'[i] = "err" /\ writerQueue' = writerQueue)]_vars

\* C4 witness: with the flag set, a Write and a WriteNoWait were both refused.
C4_Witness ==
    /\ writerDone
    /\ \E i, j \in Calls :
         cpc[i] = "err" /\ cwait[i] /\ cpc[j] = "err" /\ ~cwait[j]

\* Connection c holds an admission slot.
HoldsSlot(c) == tasks[c].reserved > tasks[c].released

SlotHolders == {c \in Conns : HoldsSlot(c)}

\* C5: a connection accepted after s.done was closed reserves no slot and gets
\* no task.
C5_NoTaskAfterShutdown ==
    \A c \in Conns : tasks[c].late => (tasks[c].reserved = 0 /\ tasks[c].adds = 0)

\* C6: when a Shutdown call returns, every connection that reserved a slot has
\* its task exited.
C6_ShutdownWaitsForTasks ==
    [][\A s \in Shutdowns :
         (shpc[s] = "wait" /\ shpc'[s] = "returned") =>
              \A c \in Conns : tasks[c].reserved > 0 => tasks[c].pc = "exited"]_vars

\* C7: no Shutdown call fails, the second included.
C7_ShutdownIdempotent == \A s \in Shutdowns : shpc[s] # "panic"

\* C8: at most getMaxConns connections hold an admission slot.
C8_SlotHoldersBounded == Cardinality(SlotHolders) <= getMaxConns

\* C8 witness: every slot is held and Serve waits for one with a further
\* connection.
C8_Witness ==
    /\ Cardinality(SlotHolders) = getMaxConns
    /\ spc = "availwait"

\* C9: a connection refused because the MaxConnWaitTimeout timer fired is
\* closed once, never reserves a slot, is never added to the WaitGroup, gets no
\* handshake and no Handle; and the refusal leaves s.sem and s.wg as they were
\* and takes Serve back to Accept.
C9_TimeoutRejects ==
    /\ [](\A c \in Conns : tasks[c].why = "timeout" =>
            /\ tasks[c].pc = "rejected"
            /\ tasks[c].closes = 1
            /\ tasks[c].reserved = 0
            /\ tasks[c].adds = 0
            /\ tasks[c].dones = 0
            /\ tasks[c].handled = 0
            /\ ~tasks[c].hsok)
    /\ [][\A c \in Conns :
            (tasks[c].why # "timeout" /\ tasks'[c].why = "timeout") =>
                 (spc' = "accept" /\ sem' = sem /\ swg' = swg)]_vars

\* C9 witness: a connection was refused on the timer while all slots were
\* held, and Serve is back at Accept.
C9_Witness ==
    /\ \E c \in Conns : tasks[c].why = "timeout"
    /\ Cardinality(SlotHolders) = getMaxConns
    /\ spc = "accept"

\* C10: a task releases its slot, closes its connection and decrements the
\* WaitGroup at most once, and exactly once by the time it has exited; Handle
\* is called at most once, and only after a handshake that succeeded.
C10_TaskCleansUpOnce ==
    \A c \in Conns :
      /\ tasks[c].released <= 1
      /\ tasks[c].dones <= 1
      /\ tasks[c].handled <= 1
      /\ tasks[c].released <= tasks[c].reserved
      /\ tasks[c].handled = 1 => (tasks[c].hsok /\ tasks[c].outcome = "handle")
      /\ tasks[c].pc = "exited" =>
            /\ tasks[c].released = 1
            /\ tasks[c].closes = 1
            /\ tasks[c].dones = 1

\* C10 witness: one task has exited after a failure before Handle, another
\* after Handle returned.
C10_Witness ==
    \E c, d \in Conns :
      /\ tasks[c].pc = "exited" /\ tasks[c].outcome \in {"arm", "handshake", "clear"}
      /\ tasks[d].pc = "exited" /\ tasks[d].outcome = "handle"

\* C11: every value next returns is not 0; each is the one before it plus 1
\* modulo 2^SeqWidth with 0 skipped (1 follows 2^SeqWidth - 1); so any
\* 2^SeqWidth - 1 consecutive returns differ pairwise, and two callers never
\* hold the result of the same call, nor equal values from calls less than
\* 2^SeqWidth - 1 apart.
C11_SequenceNumbers ==
    /\ \A k \in 1..Len(returned) : returned[k] \in 1..(SeqMod - 1)
    /\ Len(returned) > 0 => returned[1] = 1
    /\ \A k \in 1..(Len(returned) - 1) :
         returned[k + 1] = (IF returned[k] = SeqMod - 1 THEN 1 ELSE returned[k] + 1)
    /\ \A j, k \in 1..Len(returned) :
         (j < k /\ k - j < SeqMod - 1) => returned[j] # returned[k]
    /\ \A a, b \in NextCallers :
         (a # b /\ got[a] # 0 /\ got[b] # 0) =>
              /\ got[a] # got[b]
              /\ (returned[got[a]] = returned[got[b]] =>
                    (got[a] - got[b] >= SeqMod - 1 \/ got[b] - got[a] >= SeqMod - 1))

\* C11 witness: the counter has wrapped, the value after 2^SeqWidth - 1 was 1,
\* and two callers hold values.
C11_Witness ==
    /\ Len(returned) > SeqMod
    /\ returned[SeqMod - 1] = SeqMod - 1
    /\ returned[SeqMod] = 1
    /\ \A a \in NextCallers : got[a] # 0

\* C12: Serve returns nil when Accept failed with io.EOF or on a closed
\* listener, and the Accept error when it is any other error that is not
\* temporary; after a temporary error it waits, and from the wait it either
\* goes back to Accept or, only once s.done is closed, returns nil.  What a
\* connection's task comes to never changes Serve's position or result.
C12_ServeReturns ==
    /\ [](spc = "returned" =>
            \/ serr \in {"eof", "closed"} /\ sret = "nil"
            \/ serr \in {"other", "fatal"} /\ sret = "err"
            \/ serr = "temporary" /\ sret = "nil" /\ sdone)
    /\ [](spc = "wait" => serr = "temporary")
    /\ [][(spc = "accept" /\ serr' = "temporary" /\ spc' # "accept") =>
              spc' = "wait"]_vars
    /\ [][spc = "wait" => spc' \in {"wait", "accept", "returned"}]_vars
    /\ [][\A c \in Conns :
            (tasks[c].outcome # tasks'[c].outcome \/
             (tasks[c].pc = "inhandle" /\ tasks'[c].pc # "inhandle")) =>
                 (spc' = spc /\ sret' = sret)]_vars

\* C12 witness: Serve returned nil from the wait after a temporary error,
\* and a task had failed before.
C12_Witness ==
    /\ spc = "returned"
    /\ sret = "nil"
    /\ serr = "temporary"
    /\ \E c \in Conns : tasks[c].outcome \in {"arm", "handshake", "clear"}

\* C13: when Handle takes the cancellation path and no stream Write or Flush
\* fails, writeLoop stops only with the queue drained, and at the stream's
\* Close every accepted buffer has been passed to the stream's Write, in the
\* order of acceptance.
C13_CancelDrainsQueue ==
    /\ (hpath = "cancel" /\ wpc \in {"send", "done"} /\ werr = "nil")
          => (wire = accepted /\ writerQueue = <<>>)
    /\ (hpath = "cancel" /\ closes >= 1 /\ werr = "nil") => wire = accepted

C13_Witness ==
    /\ hpath = "cancel"
    /\ closes = 1
    /\ werr = "nil"
    /\ Len(wire) = MaxCalls
    /\ \E i \in Calls : ~cwait[i]

\* C14: the stream's Close is called at most once, only after writeLoop has
\* terminated, and exactly once by the time Handle returns, when both loops
\* have terminated.
C14_CloseOnceAfterWriter ==
    /\ closes <= 1
    /\ closes >= 1 => wpc = "done"
    /\ hpc = "returned" => (closes = 1 /\ wpc = "done" /\ rpc = "done")

C14_Witness ==
    /\ hpc = "returned"
    /\ hpath = "cancel"
    /\ closes = 1

\* C15: under fair scheduling, once Handle is running and one of its trigger
\* events has happened (the done channel closed, writeLoop or readLoop at the
\* send of its result), Handle returns; a writeLoop waiting on the condition
\* variable leaves the wait once the flag is set and terminates, and each
\* loop's send of its result is received.
C15_HandleReturns ==
    /\ (hpc # "idle" /\ (cancel \/ wpc = "send" \/ rpc = "send"))
          ~> (hpc = "returned")
    /\ writerDone ~> (wpc \in {"send", "done"})
    /\ (wpc = "send") ~> (wpc = "done")
    /\ (rpc = "send") ~> (rpc = "done")

C15_Witness ==
    /\ hpc = "returned"
    /\ hpath = "reader"
    /\ writerDone
    /\ wpc = "done"
    /\ Len(wire) >= 1

\* The buffers writeLoop has swapped out of the queue so far.
Drained == {accepted[k] : k \in 1..(Len(accepted) - Len(writerQueue))}

\* Buffer i got its one wg.Done() (wait = true) or its one release to the
\* pool (wait = false) from writeLoop or cleanup, and nothing else.
SignaledOnce(i) ==
    sigs[i] = IF cwait[i] THEN [done |-> 1, put |-> 0]
                          ELSE [done |-> 0, put |-> 1]

\* C16: once a stream Write has failed in writeLoop, no step passes another
\* buffer to the stream's Write and writeLoop never reaches Flush; when it
\* has left its loop every buffer it had swapped out has been signaled
\* (wait = true) or released to the pool (wait = false) exactly once.
C16_StickyWriteError ==
    /\ [][werr = "write" => (wire' = wire /\ werr' = "write")]_vars
    /\ [](werr = "write" => wpc # "flush")
    /\ []((werr = "write" /\ wpc \in {"send", "done"})
            => \A i \in Drained : SignaledOnce(i))
    /\ [](\A i \in Calls : sigs[i].done + sigs[i].put <= 1)

C16_Witness ==
    /\ werr = "write"
    /\ wpc = "send"
    /\ Len(wq) = MaxCalls
    /\ Len(wire) = 1
    /\ \E i, j \in Calls : i > 1 /\ j > 1 /\ cwait[i] /\ ~cwait[j]

\* The step with which writeLoop leaves its loop.
writeLoopExits == wpc \notin {"send", "done"} /\ wpc' = "send"

\* C17 as stated: writeLoop leaves its loop only with the flag set and the
\* queue empty.
C17_ExitsOnlyOnShutdown ==
    [][writeLoopExits => (writerDone /\ writerQueue = <<>>)]_vars

\* C17: writeLoop leaves its loop only with the flag set and the queue it
\* swapped out empty, or with the error of a failed stream Write or Flush;
\* a writeLoop that terminated without an error saw the flag set and left
\* the queue empty.
C17_ExitsOnShutdownOrError ==
    /\ [][writeLoopExits =>
            \/ werr' # "nil"
            \/ writerDone /\ writerQueue = <<>> /\ wq' = <<>>]_vars
    /\ []((wpc \in {"send", "done"} /\ werr = "nil")
            => (writerDone /\ writerQueue = <<>>))

C17_Witness ==
    /\ wpc = "send"
    /\ werr # "nil"
    /\ ~writerDone
    /\ writerQueue # <<>>

\* C18: no pendingWrite referenced by the connection's write queue has been
\* released to the pool or signaled.
C18_QueueOwnsItsEntries ==
    \A k \in 1..Len(writerQueue) :
        /\ pool[writerQueue[k]] = 0
        /\ sigs[pws[writerQueue[k]].buf].done = 0

\* C19: Handle returns the error of the event its select took: readLoop's
\* error on reader termination, writeLoop's error on writer termination,
\* nil on cancellation, whatever the loops returned afterwards.
C19_HandleReturnsSelectedError ==
    hpc = "returned" =>
        /\ hpath \in {"reader", "writer", "cancel"}
        /\ hpath = "reader" => (herr = rerr /\ herr = "read")
        /\ hpath = "writer" => (herr = werr /\ herr \in {"write", "flush"})
        /\ hpath = "cancel" => herr = "nil"

C19_Witness ==
    /\ hpc = "returned"
    /\ hpath = "cancel"
    /\ werr # "nil"
    /\ rerr # "nil"
    /\ herr = "nil"

\* C20: every Read of readLoop is offered the buffer at its configured
\* length.
C20_ReadBufferKeepsLength == rpc = "read" => rlen = getReadBufferSize

\* ============================================================ specifications
\* One Conn driven through Handle once, beside a zero-value Server.
Init ==
    /\ InitConn
    /\ sMaxConns = 0
    /\ sHandshakeTimeout = 0
    /\ InitServerState

Spec == Init /\ [][NextConn]_vars

\* A Server under each configuration, serving and being shut down.
InitServer ==
    /\ InitConn
    /\ sMaxConns \in 0..MaxMaxConns
    /\ sHandshakeTimeout \in HandshakeTimeouts
    /\ InitServerState

SpecServer == InitServer /\ [][NextServer]_vars

\* Conn.next called over and over by concurrent callers.
SpecSeq == Init /\ [][NextSeq]_vars

\* The steps of the goroutine that runs Handle, once started.
HandleStep ==
    \/ HSelectDone
    \/ HSelectWriter
    \/ HSelectReader
    \/ HSetDone
    \/ HRecvWriter
    \/ HClose
    \/ HRecvReader
    \/ clearPendingWrites

\* The steps of the writeLoop goroutine; the stream's Write and Flush return.
writeLoopStep == wlSwap \/ wlWrite \/ wlSignal \/ wlFlush

\* A Read of the closed stream returns.
readAfterClose == rlRead /\ closes > 0

Fairness ==
    /\ WF_vars(HandleStep)
    /\ WF_vars(writeLoopStep)
    /\ WF_vars(readAfterClose)

SpecLive == Init /\ [][NextConn]_vars /\ Fairness

====
